---- MODULE Spec2Model ----
(***************************************************************************)
(* Model of trainer_stage_two_new.py (class Trainer): the constructor's    *)
(* configuration checks, the train / run_epoch / val control flow, the     *)
(* checkpoint save / load, the loss aggregation of compute_losses and      *)
(* compute_losses_val, and the correspondence selection of pose_by_ransac. *)
(*                                                                         *)
(* Frame ids are modelled as the strings "0", "-1", "1" and "s" (str(f_i)  *)
(* as the code uses them in the output keys).  An exception is modelled by *)
(* the control state "aborted" with the exception's kind in `fault`.       *)
(***************************************************************************)
EXTENDS Integers, Sequences, FiniteSets, TLC

VARIABLES
    opt,          \* self.opt: the options record
    nTrain,       \* len(self.train_loader)
    nVal,         \* len(self.val_loader)
    pc,           \* control state of the Trainer
    fault,        \* kind of the exception that ended the run, "none" otherwise
    faultAt,      \* the method the exception was raised in
    use_pose_net,     \* self.use_pose_net
    num_pose_frames,  \* self.num_pose_frames
    models,       \* the keys of self.models
    toTrain,      \* the models whose parameters are in self.parameters_to_train
    mode,         \* model name -> "train" | "eval"  (nn.Module.training)
    params,       \* model name -> number of times its parameters were mutated
    epoch,        \* self.epoch
    epochIter,    \* position of the iterator of range(num_epochs) in train()
    step,         \* self.step
    batch_idx,    \* batch_idx of run_epoch's enumerate(self.train_loader)
    batchOps,     \* the operations executed for the current training batch, in order
    fetched,      \* number of training batches drawn from self.train_loader
    optSteps,     \* number of model_optimizer.step() calls
    schedSteps,   \* number of model_lr_scheduler.step() calls
    valPos,       \* position of self.val_iter in self.val_loader
    valBatches,   \* the validation batches val() obtained, in order
    valCalls,     \* number of val() calls
    checkpoints,  \* the checkpoints written: epoch -> set of file names
    events        \* what the last process_batch did, in order: network calls,
                  \* the pose_by_ransac step, the keys predict_poses wrote, a raise

loopVars == <<opt, nTrain, nVal, pc, fault, faultAt, use_pose_net, num_pose_frames, models, toTrain, mode, params,
              epoch, epochIter, step, batch_idx, batchOps, fetched, optSteps,
              schedSteps, valPos, valBatches, valCalls, checkpoints,
              events>>

VARIABLES
    lpc,          \* control state of save_model / load_model
    state_dict,   \* model name -> its state_dict(): parameter key -> value
    disk,         \* <name>.pth files of the weights folder: name -> saved dict
    toLoad,       \* the rest of self.opt.models_to_load in load_model's loop
    loaded,       \* the models load_model has loaded
    before,       \* state_dict when load_model was entered
    frozen        \* the models load_model has set to eval() and requires_grad = False

loadVars == <<lpc, state_dict, disk, toLoad, loaded, before, frozen>>

VARIABLES
    lossPc,       \* control state of compute_losses / compute_losses_val
    lossOpt,      \* the options and the frame count the loss functions read
    scaleIdx,     \* number of scales of self.opt.scales already processed
    scaleIn,      \* the outputs / inputs entries read for the scale just processed
    losses,       \* losses["loss/<scale>"]: scale -> value
    total_loss,   \* the local total_loss
    lossFinal     \* losses["loss"]

lossVars == <<lossPc, lossOpt, scaleIdx, scaleIn, losses, total_loss, lossFinal>>

VARIABLES
    rpc,          \* position in pose_by_ransac: "keypoints", "poses", "returned", "raised"
    rcfg,         \* b, self.min_matches, cfg.SIFT_POSE, cfg.SAMPLE_SP
    b_cv,         \* items the keypoint loop has processed
    matches,      \* the local variable matches (last value knnMatch returned)
    PTS1,         \* the point lists, one entry per processed item
    PTS2,
    raised,       \* per item: whether its matching raised
    batch,        \* items the pose loop has processed
    source,       \* per item: where its RANSAC input points came from
    rfault        \* the exception pose_by_ransac raised, and in which loop

ransacVars == <<rpc, rcfg, b_cv, matches, PTS1, PTS2, raised, batch, source, rfault>>

VARIABLES
    ipc,          \* position in generate_images_pred: "scales", "returned", "raised"
    iopt,         \* height, width, scales, v1_multiscale, pose_model_type, frames
    iscaleIdx,    \* scales the loop of generate_images_pred has processed
    depthRes,     \* <<h, w>> of the depth map of the last scale
    used          \* what the last scale's frames were projected with

imageVars == <<ipc, iopt, iscaleIdx, depthRes, used>>

pureVars == <<loadVars, lossVars, ransacVars, imageVars>>

vars == <<loopVars, pureVars>>

----------------------------------------------------------------------------
(* Bounds of the model. *)
MaxEpochs == 2
MaxTrain == 2
MaxVal == 2
MaxSaveFreq == 2
MaxLogFreq == 2

(* The option values the runs are drawn from. *)
FrameIdLists == {<<"0">>, <<"0", "-1">>, <<"0", "-1", "1">>, <<"-1", "0">>}
PoseModelTypes == {"separate_resnet", "shared", "posecnn", "none"}
PoseModelInputs == {"pairs", "all"}
Sizes == {32, 48}

Options ==
    [height : Sizes, width : Sizes, frame_ids : FrameIdLists, use_stereo : BOOLEAN,
     pose_model_type : PoseModelTypes, pose_model_input : PoseModelInputs,
     predictive_mask : BOOLEAN, disable_automasking : BOOLEAN,
     num_epochs : 0..MaxEpochs, save_frequency : 1..MaxSaveFreq,
     log_frequency : 1..MaxLogFreq]

----------------------------------------------------------------------------
(* Trainer.__init__ *)

\* line 33: self.num_pose_frames (num_input_frames is taken before "s" is appended)
NumPoseFrames(o) ==
    IF o.pose_model_input = "pairs" THEN 2 ELSE Len(o.frame_ids)

\* line 37: self.use_pose_net
UsePoseNet(o) == ~(o.use_stereo /\ o.frame_ids = <<"0">>)

\* lines 39-40: self.opt.frame_ids after the constructor
FrameIdsAfterInit(o) ==
    IF o.use_stereo THEN Append(o.frame_ids, "s") ELSE o.frame_ids

\* lines 42-70: the models every configuration builds
BaseModels == {"encoder", "depth", "position_encoder", "position",
               "transform_encoder", "transform"}

\* lines 72-93: the pose models the configuration builds
PoseModels(o) ==
    IF ~UsePoseNet(o) THEN {}
    ELSE IF o.pose_model_type = "separate_resnet" THEN {"pose_encoder", "pose"}
    ELSE IF o.pose_model_type \in {"shared", "posecnn"} THEN {"pose"}
    ELSE {}

\* lines 22-100: the exception the constructor raises, "none" if it completes
InitFault(o) ==
    IF o.height % 32 # 0 \/ o.width % 32 # 0 THEN "AssertionError"
    ELSE IF o.frame_ids[1] # "0" THEN "AssertionError"
    ELSE IF UsePoseNet(o) /\ "pose" \notin PoseModels(o) THEN "KeyError"
    ELSE IF o.predictive_mask /\ ~o.disable_automasking THEN "AssertionError"
    ELSE "none"

\* lines 26-108: self.models after the constructor
ModelsAfterInit(o) ==
    BaseModels \cup PoseModels(o)
        \cup (IF o.predictive_mask THEN {"predictive_mask"} ELSE {})

\* every model's parameters given to the optimizer
ParametersToTrainAll(o) == ModelsAfterInit(o)

\* lines 45-108: the models added to self.parameters_to_train
ParametersToTrain(o) ==
    ModelsAfterInit(o) \ {"position_encoder", "position"}

\* the checkpoint part is not running
LoadIdle ==
    /\ lpc = "unused"
    /\ state_dict = << >>
    /\ disk = << >>
    /\ toLoad = << >>
    /\ loaded = {}
    /\ before = << >>
    /\ frozen = {}

\* the loss part is not running
LossIdle ==
    /\ lossPc = "unused"
    /\ lossOpt = << >>
    /\ scaleIdx = 0
    /\ scaleIn = << >>
    /\ losses = << >>
    /\ total_loss = <<0, 1>>
    /\ lossFinal = <<0, 1>>

\* pose_by_ransac is not running
RansacIdle ==
    /\ rpc = "unused"
    /\ rcfg = << >>
    /\ b_cv = 0
    /\ matches = << >>
    /\ PTS1 = << >>
    /\ PTS2 = << >>
    /\ raised = << >>
    /\ batch = 0
    /\ source = << >>
    /\ rfault = << >>

\* generate_images_pred is not running
ImagesIdle ==
    /\ ipc = "unused"
    /\ iopt = << >>
    /\ iscaleIdx = 0
    /\ depthRes = << >>
    /\ used = << >>

\* the training loop is not running
LoopIdle ==
    /\ opt = << >>
    /\ nTrain = 0
    /\ nVal = 0
    /\ pc = "unused"
    /\ fault = "none"
    /\ faultAt = "none"
    /\ use_pose_net = FALSE
    /\ num_pose_frames = 0
    /\ models = {}
    /\ toTrain = {}
    /\ mode = << >>
    /\ params = << >>
    /\ epoch = 0
    /\ epochIter = 0
    /\ step = 0
    /\ batch_idx = 0
    /\ batchOps = << >>
    /\ fetched = 0
    /\ optSteps = 0
    /\ schedSteps = 0
    /\ valPos = 0
    /\ valBatches = << >>
    /\ valCalls = 0
    /\ checkpoints = << >>
    /\ events = << >>

Init ==
    /\ LoadIdle
    /\ LossIdle
    /\ RansacIdle
    /\ ImagesIdle
    /\ opt \in Options
    /\ nTrain \in 0..MaxTrain
    /\ nVal \in 0..MaxVal
    /\ pc = "new"
    /\ fault = "none"
    /\ faultAt = "none"
    /\ use_pose_net = FALSE
    /\ num_pose_frames = 0
    /\ models = {}
    /\ toTrain = {}
    /\ mode = << >>
    /\ params = << >>
    /\ epoch = 0
    /\ epochIter = 0
    /\ step = 0
    /\ batch_idx = 0
    /\ batchOps = << >>
    /\ fetched = 0
    /\ optSteps = 0
    /\ schedSteps = 0
    /\ valPos = 0
    /\ valBatches = << >>
    /\ valCalls = 0
    /\ checkpoints = << >>
    /\ events = << >>

\* Trainer.__init__ (load_weights_folder is None)
Construct ==
    /\ pc = "new"
    /\ IF InitFault(opt) # "none"
       THEN /\ pc' = "aborted"
            /\ fault' = InitFault(opt)
            /\ faultAt' = "__init__"
            /\ UNCHANGED <<opt, use_pose_net, num_pose_frames, models, toTrain,
                           mode, params>>
       ELSE /\ pc' = "constructed"
            /\ use_pose_net' = UsePoseNet(opt)
            /\ num_pose_frames' = NumPoseFrames(opt)
            /\ opt' = [opt EXCEPT !.frame_ids = FrameIdsAfterInit(opt)]
            /\ models' = ModelsAfterInit(opt)
            /\ toTrain' = ParametersToTrain(opt)
            /\ mode' = [m \in ModelsAfterInit(opt) |-> "train"]
            /\ params' = [m \in ModelsAfterInit(opt) |-> 0]
            /\ UNCHANGED <<fault, faultAt>>
    /\ UNCHANGED pureVars
    /\ UNCHANGED events
    /\ UNCHANGED <<nTrain, nVal, epoch, epochIter, step, batch_idx, batchOps, fetched,
                   optSteps, schedSteps, valPos, valBatches, valCalls, checkpoints>>

----------------------------------------------------------------------------
(* process_batch / process_batch_val: which exception the forward pass     *)
(* raises, from the names and the output keys each stage reads and writes. *)
(* An output key "<kind>_<scale>_<frame>" is modelled by <<kind, frame>>.   *)

\* frame_ids[1:]
Neighbours(o) == SubSeq(o.frame_ids, 2, Len(o.frame_ids))

\* lines 292-318: the names bound in predict_poses when line 320 is reached
PredictPosesBound ==
    {"self", "inputs", "features", "disps", "outputs", "pose_feats", "f_i",
     "inputs_all", "inputs_all_reverse", "position_inputs", "position_inputs_reverse",
     "outputs_0", "outputs_1", "flow_2D"}

\* lines 320-331: the names read up to and by the pose_by_ransac call
RansacCallReads ==
    {"h_side", "w_side", "flow_2D", "conf", "self", "ref", "target",
     "intrinsic_inv_gpu", "pose_gt", "img_path"}

\* lines 694-790: pose_by_ransac ends without a return statement
PoseByRansacReturnsTuple == FALSE

\* lines 320-331: the exception of the RANSAC step of one neighbour frame
RansacStepFault ==
    IF ~(RansacCallReads \subseteq PredictPosesBound) THEN "NameError"
    ELSE IF ~PoseByRansacReturnsTuple THEN "TypeError"
    ELSE "none"

\* lines 337-370: the kinds of keys predict_poses writes for a neighbour frame
PoseKeyKinds ==
    {"p", "ph", "r", "pr", "prh", "omaskb", "omapb", "omapbi", "t", "th", "ref",
     "axisangle", "translation", "cam_T_cam"}

\* lines 304-305: the neighbour frames predict_poses handles
PoseFrames(o) ==
    IF num_pose_frames = 2
    THEN {Neighbours(o)[i] : i \in 1..Len(Neighbours(o))} \ {"s"}
    ELSE {}

\* lines 292-374: the exception predict_poses raises
PredictPosesFault(o) ==
    IF PoseFrames(o) # {} THEN RansacStepFault ELSE "none"

\* lines 292-374: the keys predict_poses returns
PredictPosesKeys(o) == {<<k, f>> : k \in PoseKeyKinds, f \in PoseFrames(o)}

\* lines 394-411: the exception generate_images_pred raises for one frame
GenerateFrameFault(o, keys, f) ==
    IF f # "s" /\ <<"cam_T_cam", f>> \notin keys THEN "KeyError"
    ELSE IF o.pose_model_type = "posecnn" THEN "NameError"
    ELSE "none"

\* lines 376-423: the exception generate_images_pred raises (that of the first
\* frame of frame_ids[1:] that raises one)
GenerateImagesFault(o, keys) ==
    LET fs == Neighbours(o)
        bad == {i \in 1..Len(fs) : GenerateFrameFault(o, keys, fs[i]) # "none"}
    IN  IF bad = {} THEN "none"
        ELSE GenerateFrameFault(o, keys, fs[CHOOSE i \in bad : \A j \in bad : i <= j])

\* lines 418-423: the keys generate_images_pred writes
GenerateImagesKeys(o) ==
    {<<k, Neighbours(o)[i]>> : k \in {"sample", "color"}, i \in 1..Len(Neighbours(o))}

\* lines 472-482: the exception compute_losses raises
ComputeLossesFault(o, keys) ==
    IF \E i \in 1..Len(Neighbours(o)) :
          {<<"omaskb", Neighbours(o)[i]>>, <<"color", Neighbours(o)[i]>>,
           <<"r", Neighbours(o)[i]>>, <<"th", Neighbours(o)[i]>>} \ keys # {}
    THEN "KeyError" ELSE "none"

\* lines 566-570: the exception compute_losses_val raises (torch.cat of an
\* empty list raises RuntimeError)
ComputeLossesValFault(o, keys) ==
    IF \E i \in 1..Len(Neighbours(o)) : <<"r", Neighbours(o)[i]>> \notin keys
    THEN "KeyError"
    ELSE IF Len(Neighbours(o)) = 0 THEN "RuntimeError"
    ELSE "none"

\* lines 604-618: the exception log raises
LogFault(o, keys) ==
    IF \E i \in 1..Len(Neighbours(o)) :
          {<<"th", Neighbours(o)[i]>>, <<"r", Neighbours(o)[i]>>,
           <<"ref", Neighbours(o)[i]>>, <<"omaskb", Neighbours(o)[i]>>} \ keys # {}
    THEN "KeyError" ELSE "none"

\* lines 284-287, 545-548: the keys of outputs when the losses are computed
OutputKeys(o) ==
    (IF use_pose_net THEN PredictPosesKeys(o) ELSE {}) \cup GenerateImagesKeys(o)

\* lines 254-290 (val = FALSE), 517-551 (val = TRUE): the exception of the forward pass
ProcessBatchFault(o, val) ==
    IF use_pose_net /\ PredictPosesFault(o) # "none" THEN PredictPosesFault(o)
    ELSE IF GenerateImagesFault(o, OutputKeys(o)) # "none"
         THEN GenerateImagesFault(o, OutputKeys(o))
    ELSE IF val THEN ComputeLossesValFault(o, OutputKeys(o))
    ELSE ComputeLossesFault(o, OutputKeys(o))

\* an event of the forward pass: a call of self.models[model] on the frames
\* of a direction, the completed pose_by_ransac step of a frame, a key
\* predict_poses wrote, or the exception that ended the pass
Call(model, f, direction) == <<"call", model, f, direction>>
Wrote(kind, f) == <<"write", kind, f>>

\* lines 307-317: the optical-flow encoder and decoder on [f_i, 0] and on [0, f_i]
PositionCalls(f) ==
    <<Call("position_encoder", f, "neighbour,reference"),
      Call("position_encoder", f, "reference,neighbour"),
      Call("position", f, "neighbour,reference"),
      Call("position", f, "reference,neighbour")>>

\* lines 336-371: what predict_poses does for a frame after the RANSAC step
AfterRansac(f) ==
    <<Wrote("p", f), Wrote("ph", f), Wrote("r", f), Wrote("pr", f), Wrote("prh", f),
      Wrote("omaskb", f), Wrote("omapb", f), Wrote("omapbi", f),
      Call("transform_encoder", f, "registered,reference"),
      Call("transform", f, "registered,reference"),
      Wrote("t", f), Wrote("th", f), Wrote("ref", f),
      Call("pose_encoder", f, "neighbour,reference"),
      Call("pose", f, "neighbour,reference"),
      Wrote("axisangle", f), Wrote("translation", f), Wrote("cam_T_cam", f)>>

\* lines 305-371: predict_poses on one neighbour frame
PredictFrameEvents(f) ==
    IF RansacStepFault # "none"
    THEN PositionCalls(f) \o <<<<"raise", RansacStepFault, f>>>>
    ELSE PositionCalls(f) \o <<<<"ransac", f>>>> \o AfterRansac(f)

\* the pass ended with an exception
Raised(ev) == ev # << >> /\ ev[Len(ev)][1] = "raise"

\* lines 304-371: the loop of predict_poses over frame_ids[1:]
RECURSIVE PredictLoopEvents(_)
PredictLoopEvents(fs) ==
    IF fs = << >> THEN << >>
    ELSE IF Head(fs) = "s" THEN PredictLoopEvents(Tail(fs))
    ELSE IF Raised(PredictFrameEvents(Head(fs))) THEN PredictFrameEvents(Head(fs))
    ELSE PredictFrameEvents(Head(fs)) \o PredictLoopEvents(Tail(fs))

\* lines 261-285: the depth encoder and decoder, then predict_poses
ProcessBatchEvents(o) ==
    (IF o.pose_model_type = "shared"
     THEN <<Call("encoder", "all", "frame_ids"), Call("depth", "0", "reference")>>
     ELSE <<Call("encoder", "0", "reference"), Call("depth", "0", "reference")>>)
    \o (IF use_pose_net /\ num_pose_frames = 2
        THEN PredictLoopEvents(Neighbours(o)) ELSE << >>)

----------------------------------------------------------------------------
(* set_train / set_eval / val *)

\* lines 194-199, 204-209: the models set_train and set_eval switch
SwitchedModels ==
    {"encoder", "depth", "transform_encoder", "transform", "pose_encoder", "pose"}

\* lines 191-209: self.models[...] of a missing model raises KeyError
SetModeFault == IF SwitchedModels \subseteq models THEN "none" ELSE "KeyError"

\* lines 191-209: the modes after set_train / set_eval
SetMode(md, to) == [m \in DOMAIN md |-> IF m \in SwitchedModels THEN to ELSE md[m]]

\* lines 504-508: the exception of the fetch (next() on an empty loader raises
\* StopIteration again inside the except clause)
ValFetchFault == IF nVal = 0 THEN "StopIteration" ELSE "none"

\* lines 504-508: the batch val() obtains
ValFetchBatch == IF valPos < nVal THEN valPos ELSE 0

\* lines 504-508: the position of self.val_iter after the fetch
ValFetchPos ==
    IF nVal = 0 THEN 0 ELSE IF valPos < nVal THEN valPos + 1 ELSE 1

\* lines 500-515: the exception val() raises
ValFault ==
    IF SetModeFault # "none" THEN SetModeFault
    ELSE IF ValFetchFault # "none" THEN ValFetchFault
    ELSE IF ProcessBatchFault(opt, TRUE) # "none" THEN ProcessBatchFault(opt, TRUE)
    ELSE LogFault(opt, OutputKeys(opt))

\* lines 500-515: val() changes the modes, the validation iterator, nothing else
ValEffect ==
    /\ valCalls' = valCalls + 1
    /\ IF SetModeFault # "none"
       THEN UNCHANGED <<mode, valPos, valBatches>>
       ELSE /\ valPos' = ValFetchPos
            /\ valBatches' = IF ValFetchFault = "none"
                             THEN Append(valBatches, ValFetchBatch) ELSE valBatches
            /\ mode' = IF ValFault = "none" THEN SetMode(mode, "train")
                       ELSE SetMode(mode, "eval")

----------------------------------------------------------------------------
(* train / run_epoch *)

Abort(kind, where) ==
    /\ pc' = "aborted"
    /\ fault' = kind
    /\ faultAt' = where

\* lines 214-216: train() entry
Train ==
    /\ pc = "constructed"
    /\ pc' = "epoch_loop"
    /\ epoch' = 0
    /\ step' = 0
    /\ UNCHANGED pureVars
    /\ UNCHANGED events
    /\ UNCHANGED <<opt, nTrain, nVal, fault, faultAt, use_pose_net, num_pose_frames,
                   models, toTrain, mode, params,
                   epochIter, batch_idx, batchOps, fetched, optSteps, schedSteps,
                   valPos, valBatches, valCalls, checkpoints>>

\* line 217, lines 227-228: the next epoch of range(num_epochs); run_epoch's set_train
EpochStart ==
    /\ pc = "epoch_loop"
    /\ epochIter < opt.num_epochs
    /\ epoch' = epochIter
    /\ epochIter' = epochIter + 1
    /\ batch_idx' = 0
    /\ IF SetModeFault # "none"
       THEN Abort(SetModeFault, "set_train") /\ UNCHANGED mode
       ELSE /\ pc' = "batch_loop"
            /\ mode' = SetMode(mode, "train")
            /\ UNCHANGED <<fault, faultAt>>
    /\ UNCHANGED pureVars
    /\ UNCHANGED events
    /\ UNCHANGED <<opt, nTrain, nVal, use_pose_net, num_pose_frames, models, toTrain, params, step, batchOps, fetched,
                   optSteps, schedSteps, valPos, valBatches, valCalls, checkpoints>>

\* line 217: range(num_epochs) is exhausted, train() returns
TrainDone ==
    /\ pc = "epoch_loop"
    /\ epochIter >= opt.num_epochs
    /\ pc' = "done"
    /\ UNCHANGED pureVars
    /\ UNCHANGED events
    /\ UNCHANGED <<opt, nTrain, nVal, fault, faultAt, use_pose_net, num_pose_frames,
                   models, toTrain, mode, params,
                   epoch, epochIter, step, batch_idx, batchOps, fetched, optSteps,
                   schedSteps, valPos, valBatches, valCalls, checkpoints>>

\* line 230: the next batch of enumerate(self.train_loader)
FetchBatch ==
    /\ pc = "batch_loop"
    /\ batch_idx < nTrain
    /\ pc' = "process_batch"
    /\ fetched' = fetched + 1
    /\ batchOps' = << >>
    /\ UNCHANGED pureVars
    /\ UNCHANGED events
    /\ UNCHANGED <<opt, nTrain, nVal, fault, faultAt, use_pose_net, num_pose_frames,
                   models, toTrain, mode, params,
                   epoch, epochIter, step, batch_idx, optSteps, schedSteps,
                   valPos, valBatches, valCalls, checkpoints>>

\* line 234: outputs, losses = self.process_batch(inputs)
ProcessBatch ==
    /\ pc = "process_batch"
    /\ batchOps' = Append(batchOps, "process_batch")
    /\ events' = ProcessBatchEvents(opt)
    /\ IF ProcessBatchFault(opt, FALSE) # "none"
       THEN Abort(ProcessBatchFault(opt, FALSE), "process_batch")
       ELSE pc' = "zero_grad" /\ UNCHANGED <<fault, faultAt>>
    /\ UNCHANGED pureVars
    /\ UNCHANGED <<opt, nTrain, nVal, use_pose_net, num_pose_frames, models, toTrain, mode, params, epoch, epochIter,
                   step, batch_idx, fetched, optSteps, schedSteps, valPos, valBatches,
                   valCalls, checkpoints>>

\* line 236: self.model_optimizer.zero_grad()
ZeroGrad ==
    /\ pc = "zero_grad"
    /\ pc' = "backward"
    /\ batchOps' = Append(batchOps, "zero_grad")
    /\ UNCHANGED pureVars
    /\ UNCHANGED events
    /\ UNCHANGED <<opt, nTrain, nVal, fault, faultAt, use_pose_net, num_pose_frames,
                   models, toTrain, mode, params,
                   epoch, epochIter, step, batch_idx, fetched, optSteps, schedSteps,
                   valPos, valBatches, valCalls, checkpoints>>

\* line 237: losses["loss"].backward()
Backward ==
    /\ pc = "backward"
    /\ pc' = "optimizer_step"
    /\ batchOps' = Append(batchOps, "backward")
    /\ UNCHANGED pureVars
    /\ UNCHANGED events
    /\ UNCHANGED <<opt, nTrain, nVal, fault, faultAt, use_pose_net, num_pose_frames,
                   models, toTrain, mode, params,
                   epoch, epochIter, step, batch_idx, fetched, optSteps, schedSteps,
                   valPos, valBatches, valCalls, checkpoints>>

\* line 238: the optimizer updates the parameters it was built with (line 110)
StepParams(p) == [m \in DOMAIN p |-> IF m \in toTrain THEN p[m] + 1 ELSE p[m]]

\* line 238: self.model_optimizer.step()
OptimizerStep ==
    /\ pc = "optimizer_step"
    /\ pc' = "log"
    /\ batchOps' = Append(batchOps, "step")
    /\ params' = StepParams(params)
    /\ optSteps' = optSteps + 1
    /\ UNCHANGED pureVars
    /\ UNCHANGED events
    /\ UNCHANGED <<opt, nTrain, nVal, fault, faultAt, use_pose_net, num_pose_frames,
                   models, toTrain, mode,
                   epoch, epochIter, step, batch_idx, fetched, schedSteps,
                   valPos, valBatches, valCalls, checkpoints>>

\* line 242: phase
Phase == batch_idx % opt.log_frequency = 0

\* lines 240-250: log_time, log, val() when phase holds; then self.step += 1
LogAndVal ==
    /\ pc = "log"
    /\ IF ~Phase
       THEN /\ pc' = "batch_loop"
            /\ step' = step + 1
            /\ batch_idx' = batch_idx + 1
            /\ UNCHANGED <<fault, faultAt, mode, batchOps, valPos, valBatches, valCalls>>
       ELSE IF LogFault(opt, OutputKeys(opt)) # "none"
       THEN /\ Abort(LogFault(opt, OutputKeys(opt)), "log")
            /\ batchOps' = Append(batchOps, "log")
            /\ UNCHANGED <<step, batch_idx, mode, valPos, valBatches, valCalls>>
       ELSE /\ batchOps' = batchOps \o <<"log", "val">>
            /\ ValEffect
            /\ IF ValFault # "none"
               THEN Abort(ValFault, "val") /\ UNCHANGED <<step, batch_idx>>
               ELSE /\ pc' = "batch_loop"
                    /\ step' = step + 1
                    /\ batch_idx' = batch_idx + 1
                    /\ UNCHANGED <<fault, faultAt>>
    /\ UNCHANGED pureVars
    /\ UNCHANGED events
    /\ UNCHANGED <<opt, nTrain, nVal, use_pose_net, num_pose_frames, models, toTrain, params, epoch, epochIter,
                   fetched, optSteps, schedSteps, checkpoints>>

\* line 252: self.model_lr_scheduler.step(), after the last batch of the epoch
SchedulerStep ==
    /\ pc = "batch_loop"
    /\ batch_idx >= nTrain
    /\ pc' = "save_check"
    /\ schedSteps' = schedSteps + 1
    /\ UNCHANGED pureVars
    /\ UNCHANGED events
    /\ UNCHANGED <<opt, nTrain, nVal, fault, faultAt, use_pose_net, num_pose_frames,
                   models, toTrain, mode, params,
                   epoch, epochIter, step, batch_idx, batchOps, fetched, optSteps,
                   valPos, valBatches, valCalls, checkpoints>>

\* lines 641-660: the files of one checkpoint: <name>.pth per model, the scripted
\* <name>.pt of four models, and adam.pth
CheckpointFiles ==
    {<<m, "pth">> : m \in models}
        \cup {<<m, "pt">> : m \in models \cap {"encoder", "depth", "pose", "pose_encoder"}}
        \cup {<<"adam", "pth">>}

\* line 219: the save condition
SaveDue == (epoch + 1) % opt.save_frequency = 0

\* lines 219-220: self.save_model()
SaveModel ==
    /\ pc = "save_check"
    /\ SaveDue
    /\ pc' = "epoch_loop"
    /\ checkpoints' = [e \in DOMAIN checkpoints \cup {epoch} |->
                          IF e = epoch THEN CheckpointFiles ELSE checkpoints[e]]
    /\ UNCHANGED pureVars
    /\ UNCHANGED events
    /\ UNCHANGED <<opt, nTrain, nVal, fault, faultAt, use_pose_net, num_pose_frames,
                   models, toTrain, mode, params,
                   epoch, epochIter, step, batch_idx, batchOps, fetched, optSteps,
                   schedSteps, valPos, valBatches, valCalls>>

\* line 219: no checkpoint after this epoch
SkipSave ==
    /\ pc = "save_check"
    /\ ~SaveDue
    /\ pc' = "epoch_loop"
    /\ UNCHANGED pureVars
    /\ UNCHANGED events
    /\ UNCHANGED <<opt, nTrain, nVal, fault, faultAt, use_pose_net, num_pose_frames,
                   models, toTrain, mode, params,
                   epoch, epochIter, step, batch_idx, batchOps, fetched, optSteps,
                   schedSteps, valPos, valBatches, valCalls, checkpoints>>

Next ==
    \/ Construct
    \/ Train
    \/ EpochStart
    \/ TrainDone
    \/ FetchBatch
    \/ ProcessBatch
    \/ ZeroGrad
    \/ Backward
    \/ OptimizerStep
    \/ LogAndVal
    \/ SchedulerStep
    \/ SaveModel
    \/ SkipSave

Spec == Init /\ [][Next]_vars

----------------------------------------------------------------------------
(* save_model / load_model on the parameter dictionaries.  The run starts  *)
(* with a weights folder of an earlier training, whose files may have      *)
(* other keys than the current models.                                     *)

MaxValue == 2

LoadModels == {"encoder", "depth"}
ParamKeys == {"conv1", "bn1"}
OldKeys == {"fc"}
SavedValues == {9}

\* lines 646-650: the entries save_model adds to the encoder's dictionary
EncoderExtras == [k \in {"height", "width", "use_stereo"} |-> 32]

\* the dictionaries with keys among ks and values among vs
Dicts(ks, vs) == UNION {[S -> vs] : S \in SUBSET ks}

\* dict.update: the entries of u replace and extend those of d
Update(d, u) == [k \in DOMAIN d \cup DOMAIN u |-> IF k \in DOMAIN u THEN u[k] ELSE d[k]]

\* line 678 without its filter
FilterPretrainedKeepsAll(pretrained_dict, model_dict) == pretrained_dict

\* line 678: {k: v for k, v in pretrained_dict.items() if k in model_dict}
FilterPretrained(pretrained_dict, model_dict) ==
    [k \in DOMAIN pretrained_dict \cap DOMAIN model_dict |-> pretrained_dict[k]]

\* lines 676-679: the dictionary handed to load_state_dict
MergedDict(model_dict, pretrained_dict) ==
    Update(model_dict, FilterPretrained(pretrained_dict, model_dict))

\* lines 644-650: the dictionary save_model writes for a model
ToSave(name) ==
    IF name = "encoder" THEN Update(state_dict[name], EncoderExtras)
    ELSE state_dict[name]

\* the state the load specification starts in
InitLoad ==
    /\ LoopIdle
    /\ LossIdle
    /\ RansacIdle
    /\ ImagesIdle
    /\ lpc = "ready"
    /\ state_dict \in [LoadModels -> {d \in Dicts(ParamKeys, {0}) : DOMAIN d # {}}]
    /\ \E present \in SUBSET LoadModels :
          disk \in [present -> Dicts(ParamKeys \cup OldKeys, SavedValues)]
    /\ toLoad = << >>
    /\ loaded = {}
    /\ before = << >>
    /\ frozen = {}

\* line 238: an optimizer step changes the parameter values
StepValues ==
    /\ lpc = "ready"
    /\ \A n \in LoadModels : \A k \in DOMAIN state_dict[n] : state_dict[n][k] < MaxValue
    /\ state_dict' = [n \in LoadModels |-> [k \in DOMAIN state_dict[n] |-> state_dict[n][k] + 1]]
    /\ UNCHANGED <<lpc, disk, toLoad, loaded, before, frozen>>
    /\ UNCHANGED <<loopVars, lossVars, ransacVars, imageVars>>

\* lines 641-652: save_model writes <name>.pth for every model
SaveFiles ==
    /\ lpc = "ready"
    /\ disk' = [n \in LoadModels |-> ToSave(n)]
    /\ UNCHANGED <<lpc, state_dict, toLoad, loaded, before, frozen>>
    /\ UNCHANGED <<loopVars, lossVars, ransacVars, imageVars>>

\* lines 664-673: load_model is entered with some models_to_load
LoadStart ==
    /\ lpc = "ready"
    /\ \E l \in {<<"encoder">>, <<"depth">>, <<"encoder", "depth">>, <<"depth", "encoder">>} :
          toLoad' = l
    /\ lpc' = "loading"
    /\ before' = state_dict
    /\ UNCHANGED <<state_dict, disk, loaded, frozen>>
    /\ UNCHANGED <<loopVars, lossVars, ransacVars, imageVars>>

\* lines 673-683: one iteration of load_model's loop (torch.load of a missing
\* file raises; load_state_dict raises on a missing or unexpected key)
LoadOne ==
    /\ lpc = "loading"
    /\ toLoad # << >>
    /\ LET n == Head(toLoad) IN
          IF n \notin DOMAIN disk
          THEN /\ lpc' = "load_failed"
               /\ UNCHANGED <<state_dict, toLoad, loaded, frozen>>
          ELSE IF DOMAIN MergedDict(state_dict[n], disk[n]) # DOMAIN state_dict[n]
          THEN /\ lpc' = "load_failed"
               /\ UNCHANGED <<state_dict, toLoad, loaded, frozen>>
          ELSE /\ state_dict' = [state_dict EXCEPT ![n] = MergedDict(state_dict[n], disk[n])]
               /\ toLoad' = Tail(toLoad)
               /\ loaded' = loaded \cup {n}
               /\ frozen' = frozen \cup {n}
               /\ UNCHANGED lpc
    /\ UNCHANGED <<disk, before>>
    /\ UNCHANGED <<loopVars, lossVars, ransacVars, imageVars>>

\* line 692: load_model returns
LoadDone ==
    /\ lpc = "loading"
    /\ toLoad = << >>
    /\ lpc' = "loaded"
    /\ UNCHANGED <<state_dict, disk, toLoad, loaded, before, frozen>>
    /\ UNCHANGED <<loopVars, lossVars, ransacVars, imageVars>>

NextLoad ==
    \/ StepValues
    \/ SaveFiles
    \/ LoadStart
    \/ LoadOne
    \/ LoadDone

SpecLoad == InitLoad /\ [][NextLoad]_vars

\* C4: for every model load_model has loaded, the model keeps exactly its own
\* keys; a key takes the saved value iff the saved file has it, and keeps its
\* value otherwise; keys the file alone has are not added, and loading a file
\* that exists never fails.
C4_PartialLoad ==
    /\ \A n \in loaded :
          /\ DOMAIN state_dict[n] = DOMAIN before[n]
          /\ \A k \in DOMAIN before[n] :
                state_dict[n][k] = IF k \in DOMAIN disk[n] THEN disk[n][k] ELSE before[n][k]
    /\ lpc = "load_failed" => Head(toLoad) \notin DOMAIN disk

\* C4 witness: a loaded model with a key that took another value from the
\* file, a key the file lacks, and the file holding a key the model lacks;
\* and the encoder loaded from a file save_model wrote.
C4_Witness ==
    /\ lpc = "loaded"
    /\ \E n \in loaded :
          /\ \E k \in DOMAIN before[n] \cap DOMAIN disk[n] : before[n][k] # disk[n][k]
          /\ DOMAIN before[n] \ DOMAIN disk[n] # {}
          /\ DOMAIN disk[n] \ DOMAIN before[n] # {}

\* C4 witness of the round trip: the encoder loaded from the file save_model wrote
C4_WitnessSaved ==
    /\ lpc = "loaded"
    /\ "encoder" \in loaded
    /\ "height" \in DOMAIN disk["encoder"]
    /\ \E k \in DOMAIN before["encoder"] : before["encoder"][k] # disk["encoder"][k]

----------------------------------------------------------------------------
(* compute_losses / compute_losses_val.  A tensor value is a rational      *)
(* <<numerator, denominator>>; the per-frame terms the helper functions    *)
(* return (the masked reprojection term, get_smooth_bright, get_smooth_    *)
(* loss, ncc_loss) are inputs, read scale by scale as the loops do.        *)

MaxScale == 1
MaxNeighbours == 2
MaxPix == 2

TermValues == {0, 1}
RegValues == {1, 2}
NccValues == {-1, 0}
MaskSums == {1, 2}
TransformConstraints == {0, 1}
TransformSmoothness == {2}
DisparitySmoothness == {3}

\* opt.scales: the lists [0, ..., k]
ScaleLists == {[i \in 1..k |-> i - 1] : k \in 1..(MaxScale + 1)}

R(n) == <<n, 1>>
RAdd(a, b) == <<a[1] * b[2] + b[1] * a[2], a[2] * b[2]>>
RScale(k, a) == <<k * a[1], a[2]>>
RDivInt(a, k) == <<a[1], a[2] * k>>
REq(a, b) == a[1] * b[2] = b[1] * a[2]

Abs(x) == IF x < 0 THEN -x ELSE x

\* tensor.detach(): the same values, cut from the gradient graph
Detach(x) == x

\* x += term over the first n frames of frame_ids[1:], from 0
RECURSIVE SumFrames(_, _)
SumFrames(term, n) == IF n = 0 THEN R(0) ELSE RAdd(SumFrames(term, n - 1), term[n])

\* the term of the refined image (r plus a correction) against r.detach()
TransformTermOfRefined(r, mask) == RDivInt(R(Abs((r + 1) - Detach(r)) * mask), mask)

\* lines 478-479: (|r - r.detach()|.mean(1, True) * mask).sum() / mask.sum()
TransformTerm(r, mask) == RDivInt(R(Abs(r - Detach(r)) * mask), mask)

\* lines 488-490 divide the accumulated terms by the literal 2.0
FrameDivisor == 2

\* lines 457-491: the loss of one scale
ScaleLoss(o, scale, in) ==
    LET loss_reprojection == SumFrames([f \in 1..o.n |-> R(in.rep[f])], o.n)
        loss_transform == SumFrames([f \in 1..o.n |-> TransformTerm(in.reg[f], o.mask)], o.n)
        loss_cvt == SumFrames([f \in 1..o.n |-> R(in.cvt[f])], o.n)
        l1 == RAdd(R(0), RDivInt(loss_reprojection, FrameDivisor))
        l2 == RAdd(l1, RScale(o.transform_constraint, RDivInt(loss_transform, FrameDivisor)))
        l3 == RAdd(l2, RScale(o.transform_smoothness, RDivInt(loss_cvt, FrameDivisor)))
    IN  RAdd(l3, RDivInt(RScale(o.disparity_smoothness, R(in.smooth)), 2 ^ scale))

\* the first element of a list of per-frame maps, in place of the minimum
MinOverFramesTakesFirst(maps, n, p) == maps[1][p]

\* lines 570-571: torch.cat(registration_losses, 1) and torch.min(..., dim=1) at one
\* pixel location, over the n maps of the list
RECURSIVE MinOverFrames(_, _, _)
MinOverFrames(maps, n, p) ==
    IF n = 1 THEN maps[1][p]
    ELSE LET m == MinOverFrames(maps, n - 1, p)
         IN  IF maps[n][p] < m THEN maps[n][p] ELSE m

\* tensor.mean(): the sum of the first p entries
RECURSIVE SumPix(_, _)
SumPix(v, p) == IF p = 0 THEN 0 ELSE SumPix(v, p - 1) + v[p]

\* lines 561-573: the loss of one scale of compute_losses_val
ScaleLossVal(o, in) ==
    LET registration_losses == [p \in 1..o.pix |-> MinOverFrames(in.ncc, o.n, p)]
    IN  RAdd(R(0), <<SumPix(registration_losses, o.pix), o.pix>>)

\* what a call of compute_losses reads besides the per-frame terms: the
\* options, the number n of frames in frame_ids[1:] and the mask's sum
LossCalls ==
    [which : {"train"}, scales : ScaleLists, n : 0..MaxNeighbours, mask : MaskSums,
     transform_constraint : TransformConstraints,
     transform_smoothness : TransformSmoothness,
     disparity_smoothness : DisparitySmoothness]

\* what a call of compute_losses_val reads besides the NCC maps: the scales,
\* the number n of frames in frame_ids[1:] and the number of pixel locations
LossValCalls ==
    [which : {"val"}, scales : ScaleLists, n : 0..MaxNeighbours, pix : 1..MaxPix]

\* the state the loss specification starts in: one call of either function
InitLoss ==
    /\ LoopIdle
    /\ LoadIdle
    /\ RansacIdle
    /\ ImagesIdle
    /\ lossPc = "entry"
    /\ lossOpt \in LossCalls \cup LossValCalls
    /\ scaleIdx = 0
    /\ scaleIn = << >>
    /\ losses = << >>
    /\ total_loss = R(0)
    /\ lossFinal = R(0)

\* self.num_scales (line 31)
num_scales == Len(lossOpt.scales)

\* the per-frame inputs of one scale of compute_losses
TrainInputs(n) ==
    {[rep |-> rep, reg |-> [f \in 1..n |-> r], cvt |-> [f \in 1..n |-> c], smooth |-> sm] :
        rep \in [1..n -> TermValues], r \in RegValues, c \in TermValues, sm \in TermValues}

\* lines 455-494: one iteration of compute_losses' loop over the scales
ScaleLosses ==
    /\ lossPc = "entry"
    /\ lossOpt.which = "train"
    /\ scaleIdx < num_scales
    /\ \E in \in TrainInputs(lossOpt.n) :
          LET scale == lossOpt.scales[scaleIdx + 1]
              loss == ScaleLoss(lossOpt, scale, in)
          IN  /\ scaleIn' = in
              /\ total_loss' = RAdd(total_loss, loss)
              /\ losses' = [s \in DOMAIN losses \cup {scale} |->
                               IF s = scale THEN loss ELSE losses[s]]
    /\ scaleIdx' = scaleIdx + 1
    /\ UNCHANGED <<lossPc, lossOpt, lossFinal>>
    /\ UNCHANGED <<loopVars, loadVars, ransacVars, imageVars>>

\* lines 496-498: total_loss /= self.num_scales; losses["loss"] = total_loss
FinishLosses ==
    /\ lossPc = "entry"
    /\ lossOpt.which = "train"
    /\ scaleIdx = num_scales
    /\ total_loss' = RDivInt(total_loss, num_scales)
    /\ lossFinal' = RDivInt(total_loss, num_scales)
    /\ lossPc' = "returned"
    /\ UNCHANGED <<lossOpt, scaleIdx, scaleIn, losses>>
    /\ UNCHANGED <<loopVars, loadVars, ransacVars, imageVars>>

\* lines 559-575: one iteration of compute_losses_val's loop over the scales
\* (torch.cat of an empty list raises)
ScaleLossesVal ==
    /\ lossPc = "entry"
    /\ lossOpt.which = "val"
    /\ scaleIdx < num_scales
    /\ IF lossOpt.n = 0
       THEN /\ lossPc' = "raised"
            /\ UNCHANGED <<scaleIdx, scaleIn, losses, total_loss>>
       ELSE /\ \E ncc \in [1..lossOpt.n -> [1..lossOpt.pix -> NccValues]] :
                  LET scale == lossOpt.scales[scaleIdx + 1]
                      loss == ScaleLossVal(lossOpt, [ncc |-> ncc])
                  IN  /\ scaleIn' = [ncc |-> ncc]
                      /\ total_loss' = RAdd(total_loss, loss)
                      /\ losses' = [s \in DOMAIN losses \cup {scale} |->
                                       IF s = scale THEN loss ELSE losses[s]]
            /\ scaleIdx' = scaleIdx + 1
            /\ UNCHANGED lossPc
    /\ UNCHANGED <<lossOpt, lossFinal>>
    /\ UNCHANGED <<loopVars, loadVars, ransacVars, imageVars>>

\* lines 577-580: total_loss /= self.num_scales; losses["loss"] = -1 * total_loss
FinishLossesVal ==
    /\ lossPc = "entry"
    /\ lossOpt.which = "val"
    /\ scaleIdx = num_scales
    /\ total_loss' = RDivInt(total_loss, num_scales)
    /\ lossFinal' = RScale(-1, RDivInt(total_loss, num_scales))
    /\ lossPc' = "returned"
    /\ UNCHANGED <<lossOpt, scaleIdx, scaleIn, losses>>
    /\ UNCHANGED <<loopVars, loadVars, ransacVars, imageVars>>

NextLoss ==
    \/ ScaleLosses
    \/ FinishLosses
    \/ ScaleLossesVal
    \/ FinishLossesVal

SpecLoss == InitLoss /\ [][NextLoss]_vars

\* the scale the last iteration processed
LastScale == lossOpt.scales[scaleIdx]

\* the sum of the stored per-scale losses over the first k scales
RECURSIVE SumScales(_)
SumScales(k) == IF k = 0 THEN R(0) ELSE RAdd(SumScales(k - 1), losses[lossOpt.scales[k]])

\* the sum of the values v[f] over the frames 1..n
RECURSIVE SumInts(_, _)
SumInts(v, n) == IF n = 0 THEN 0 ELSE SumInts(v, n - 1) + v[n]

\* C6: for every frame_ids list the terms of a scale accumulated over
\* frame_ids[1:] are divided by the number of neighbour frames (their mean, the
\* transform term being 0), and losses["loss"] is the sum of the per-scale
\* losses divided by the number of scales.
C6_TermsAveragedOverNeighbours ==
    /\ lossPc # "unused" /\ lossOpt.which = "train" /\ scaleIdx >= 1 /\ lossOpt.n >= 1
          => REq(losses[LastScale],
                 RAdd(RAdd(<<SumInts(scaleIn.rep, lossOpt.n), lossOpt.n>>,
                           RScale(lossOpt.transform_smoothness,
                                  <<SumInts(scaleIn.cvt, lossOpt.n), lossOpt.n>>)),
                      <<lossOpt.disparity_smoothness * scaleIn.smooth, 2 ^ LastScale>>))
    /\ lossPc = "returned" /\ lossOpt.which = "train"
          => REq(lossFinal, RDivInt(SumScales(num_scales), num_scales))

\* the least element of a finite set of integers
MinOf(S) == CHOOSE x \in S : \A y \in S : x <= y

\* C7: in compute_losses_val the stored loss of a scale is the mean over the
\* pixel locations of the minimum over the neighbour frames of the per-frame
\* NCC loss, stored un-negated; losses["loss"] is minus the mean of the
\* per-scale losses over the scales.
C7_ValLossNegatedMeanOfMin ==
    /\ lossPc # "unused" /\ lossOpt.which = "val" /\ scaleIdx >= 1
          => REq(losses[LastScale],
                 <<SumInts([p \in 1..lossOpt.pix |->
                              MinOf({scaleIn.ncc[f][p] : f \in 1..lossOpt.n})], lossOpt.pix),
                   lossOpt.pix>>)
    /\ lossPc = "returned" /\ lossOpt.which = "val"
          => /\ DOMAIN losses = {lossOpt.scales[i] : i \in 1..num_scales}
             /\ REq(lossFinal, RScale(-1, RDivInt(SumScales(num_scales), num_scales)))

\* C7 witness: compute_losses_val has returned for two scales and two
\* neighbour frames, the frames differ at a pixel of the last scale, and the
\* aggregate loss is positive (the per-scale losses are negative).
C7_Witness ==
    /\ lossPc = "returned"
    /\ lossOpt.which = "val"
    /\ num_scales >= 2
    /\ lossOpt.n >= 2
    /\ lossOpt.pix >= 2
    /\ \E p \in 1..lossOpt.pix : scaleIn.ncc[1][p] # scaleIn.ncc[2][p]
    /\ \E p \in 1..lossOpt.pix : scaleIn.ncc[1][p] < scaleIn.ncc[2][p]
    /\ \E p \in 1..lossOpt.pix : scaleIn.ncc[2][p] < scaleIn.ncc[1][p]
    /\ losses[LastScale][1] < 0
    /\ lossFinal[1] * lossFinal[2] > 0

----------------------------------------------------------------------------
(* pose_by_ransac: the keypoint loop (lines 709-742), the assertion (744)  *)
(* and the choice of the RANSAC input points in the pose loop (746-773).   *)
(* kp1 and kp2 are an item's keypoint lists after detection (720-725); a   *)
(* keypoint's .pt is modelled by <<image, index>>.  A candidate of         *)
(* knnMatch is the pair (m, n) with m.distance, n.distance, m.queryIdx and *)
(* m.trainIdx.                                                             *)

MaxBatch == 2
MaxMatches == 2
MaxMinMatches == 2

\* m.distance and n.distance of a candidate: 3 passes the ratio test against 5,
\* 4 is exactly 0.8 * 5 and fails it
MDistances == {3, 4}
NDistances == {5}

\* the lists flann.knnMatch can return for k query descriptors: one candidate
\* per descriptor, in query order
Candidates(k) ==
    {[i \in 1..k |-> [queryIdx |-> i - 1, trainIdx |-> k - i, m |-> md[i], n |-> nd]] :
        md \in [1..k -> MDistances], nd \in NDistances}

AllCandidates == UNION {Candidates(k) : k \in 0..MaxMatches}

\* kp1[i].pt and kp2[i].pt
Pt1(i) == <<1, i>>
Pt2(i) == <<2, i>>

\* the list [None]
Sentinel == <<"None">>

\* the ratio test accepting a candidate at the threshold too
RatioTestNonStrict(c) == 10 * c.m <= 8 * c.n

\* line 732: m.distance < 0.8*n.distance
RatioTest(c) == 10 * c.m < 8 * c.n

\* lines 730-732: the candidates the first loop appends to good
RECURSIVE Good(_)
Good(ms) ==
    IF ms = << >> THEN << >>
    ELSE IF RatioTest(Head(ms)) THEN <<Head(ms)>> \o Good(Tail(ms)) ELSE Good(Tail(ms))

\* lines 735-738: the matches the point lists are built from
Selected(ms, min_matches) == IF Len(Good(ms)) < min_matches THEN ms ELSE Good(ms)

\* pts1 and pts2 of a list of matches (lines 732, 738)
Pts1Of(ms) == [i \in 1..Len(ms) |-> Pt1(ms[i].queryIdx)]
Pts2Of(ms) == [i \in 1..Len(ms) |-> Pt2(ms[i].trainIdx)]

\* a failure handler that appends nothing
OnMatchFailureSkips(P) == P

\* lines 740-742: the except branch appends [None]
OnMatchFailure(P) == Append(P, Sentinel)

\* the state the pose_by_ransac specification starts in: one call
InitRansac ==
    /\ LoopIdle
    /\ LoadIdle
    /\ LossIdle
    /\ ImagesIdle
    /\ rpc = "keypoints"
    /\ rcfg \in [b : 1..MaxBatch, min_matches : 1..MaxMinMatches,
                 SIFT_POSE : BOOLEAN, SAMPLE_SP : BOOLEAN]
    /\ b_cv = 0
    /\ matches = << >>
    /\ PTS1 = << >>
    /\ PTS2 = << >>
    /\ raised = << >>
    /\ batch = 0
    /\ source = << >>
    /\ rfault = << >>

\* lines 709-742: one iteration of the keypoint loop.  knnMatch raises, or it
\* returns a candidate list and the filtering loop raises (a candidate that
\* does not unpack, a keypoint index out of range), or the point lists are
\* appended.
KeypointStep ==
    /\ rpc = "keypoints"
    /\ b_cv < rcfg.b
    /\ \/ /\ UNCHANGED matches
          /\ PTS1' = OnMatchFailure(PTS1)
          /\ PTS2' = OnMatchFailure(PTS2)
          /\ raised' = Append(raised, TRUE)
       \/ \E ms \in AllCandidates :
             /\ matches' = ms
             /\ \/ /\ Len(ms) >= 1
                   /\ PTS1' = OnMatchFailure(PTS1)
                   /\ PTS2' = OnMatchFailure(PTS2)
                   /\ raised' = Append(raised, TRUE)
                \/ /\ PTS1' = Append(PTS1, Pts1Of(Selected(ms, rcfg.min_matches)))
                   /\ PTS2' = Append(PTS2, Pts2Of(Selected(ms, rcfg.min_matches)))
                   /\ raised' = Append(raised, FALSE)
    /\ b_cv' = b_cv + 1
    /\ UNCHANGED <<rpc, rcfg, batch, source, rfault>>
    /\ UNCHANGED <<loopVars, loadVars, lossVars, imageVars>>

\* line 744: assert len(PTS1)==b
AssertLen ==
    /\ rpc = "keypoints"
    /\ b_cv = rcfg.b
    /\ IF Len(PTS1) = rcfg.b
       THEN rpc' = "poses" /\ UNCHANGED rfault
       ELSE rpc' = "raised" /\ rfault' = <<"AssertionError", "keypoints">>
    /\ UNCHANGED <<rcfg, b_cv, matches, PTS1, PTS2, raised, batch, source>>
    /\ UNCHANGED <<loopVars, loadVars, lossVars, imageVars>>

\* lines 747-773: where the RANSAC input points of one item come from, or the
\* exception the conversion of its point list raises.  torch.FloatTensor,
\* torch.from_numpy and np.round reject the list [None]; an empty point array
\* under SIFT_POSE gives torch.bmm a 1x1x0 operand.
PoseInput(cfg, pts1, pts2) ==
    IF cfg.SIFT_POSE
    THEN IF pts1 = Sentinel THEN [source |-> "none", fault |-> "TypeError"]
         ELSE IF Len(pts1) = 0 THEN [source |-> "none", fault |-> "RuntimeError"]
         ELSE [source |-> "sift", fault |-> "none"]
    ELSE IF Len(pts1) < cfg.min_matches \/ Len(pts2) < cfg.min_matches
         THEN [source |-> "dense", fault |-> "none"]
         ELSE IF pts1 = Sentinel THEN [source |-> "none", fault |-> "TypeError"]
         ELSE IF cfg.SAMPLE_SP THEN [source |-> "interpolated", fault |-> "none"]
         ELSE [source |-> "indexed", fault |-> "none"]

\* lines 746-789: one iteration of the pose loop, up to the RANSAC call
PoseStep ==
    /\ rpc = "poses"
    /\ batch < rcfg.b
    /\ LET in == PoseInput(rcfg, PTS1[batch + 1], PTS2[batch + 1])
       IN  IF in.fault = "none"
           THEN /\ source' = Append(source, in.source)
                /\ batch' = batch + 1
                /\ UNCHANGED <<rpc, rfault>>
           ELSE /\ rpc' = "raised"
                /\ rfault' = <<in.fault, "poses">>
                /\ UNCHANGED <<source, batch>>
    /\ UNCHANGED <<rcfg, b_cv, matches, PTS1, PTS2, raised>>
    /\ UNCHANGED <<loopVars, loadVars, lossVars, imageVars>>

\* the function body ends after the pose loop
ReturnRansac ==
    /\ rpc = "poses"
    /\ batch = rcfg.b
    /\ rpc' = "returned"
    /\ UNCHANGED <<rcfg, b_cv, matches, PTS1, PTS2, raised, batch, source, rfault>>
    /\ UNCHANGED <<loopVars, loadVars, lossVars, imageVars>>

NextRansac ==
    \/ KeypointStep
    \/ AssertLen
    \/ PoseStep
    \/ ReturnRansac

SpecRansac == InitRansac /\ [][NextRansac]_vars

\* C8: a matching exception on an item never aborts the keypoint loop: the
\* loop processes all b items, PTS1 and PTS2 hold one entry per processed
\* item (b entries after the loop), and entry i is the [None] sentinel exactly
\* when the matching of item i raised.
C8_MatchFailureMarksOnlyThatItem ==
    /\ Len(PTS1) = b_cv /\ Len(PTS2) = b_cv /\ Len(raised) = b_cv
    /\ \A i \in 1..b_cv :
          /\ PTS1[i] = Sentinel <=> raised[i]
          /\ PTS2[i] = Sentinel <=> raised[i]
    /\ rpc \in {"poses", "returned", "raised"} => b_cv = rcfg.b
    /\ rpc = "raised" => rfault[2] # "keypoints"

\* C8 witness: the keypoint loop has finished a batch of two or more items in
\* which the matching of one item raised and that of another did not.
C8_Witness ==
    /\ rpc = "poses"
    /\ rcfg.b >= 2
    /\ raised[1]
    /\ ~raised[2]
    /\ PTS1[1] = Sentinel
    /\ Len(PTS1[2]) >= 1
    /\ PTS1[2] # Sentinel

\* the number of keypoint correspondences of item i
Correspondences(i) == IF raised[i] THEN 0 ELSE Len(PTS1[i])

\* C9: every item with fewer than min_matches correspondences (an item marked
\* with the sentinel included) takes its RANSAC input from the dense,
\* margin-trimmed flow grid, and the pose loop does not raise on it, for every
\* cfg.SIFT_POSE, cfg.SAMPLE_SP and min_matches.
C9_FewMatchesFallBackToDense ==
    /\ \A i \in 1..Len(source) :
          Correspondences(i) < rcfg.min_matches => source[i] = "dense"
    /\ rpc = "raised" /\ rfault[2] = "poses"
          => Correspondences(batch + 1) >= rcfg.min_matches

\* the positions of matches that pass m.distance < 0.8 * n.distance
Survivors == {i \in 1..Len(matches) : 5 * matches[i].m < 4 * matches[i].n}

\* the entries of pts are the points (kp1[m.queryIdx].pt for image 1,
\* kp2[m.trainIdx].pt for image 2) of the matches at the positions idx, in
\* increasing order of position
PointsOf(pts, idx, image) ==
    /\ Len(pts) = Cardinality(idx)
    /\ \E f \in [1..Len(pts) -> idx] :
          /\ \A j, k \in 1..Len(pts) : j < k => f[j] < f[k]
          /\ \A k \in 1..Len(pts) :
                pts[k] = IF image = 1 THEN <<1, matches[f[k]].queryIdx>>
                                      ELSE <<2, matches[f[k]].trainIdx>>

\* C10: a candidate survives iff m.distance < 0.8 * n.distance; the stored
\* correspondences of an item whose matching did not raise are the survivors
\* when there are at least min_matches of them and otherwise all candidates,
\* and pts1 and pts2 have the same length.
C10_RatioTestThenRelax ==
    b_cv >= 1 /\ Len(raised) = b_cv /\ ~raised[b_cv]
       => LET idx == IF Cardinality(Survivors) >= rcfg.min_matches
                     THEN Survivors ELSE 1..Len(matches)
          IN  /\ PointsOf(PTS1[b_cv], idx, 1)
              /\ PointsOf(PTS2[b_cv], idx, 2)
              /\ Len(PTS1[b_cv]) = Len(PTS2[b_cv])

\* C10 witness: the second item of a batch was stored with its ratio-test
\* survivors only: one of its two candidates passed the test, the other, at
\* exactly 0.8 times the second distance, was dropped.
C10_Witness ==
    /\ b_cv = 2
    /\ ~raised[2]
    /\ Len(matches) = 2
    /\ Cardinality(Survivors) = 1
    /\ rcfg.min_matches = 1
    /\ \E i \in 1..Len(matches) : matches[i].m = 4
    /\ Len(PTS1[2]) = 1
    /\ Len(PTS2[2]) = 1

----------------------------------------------------------------------------
(* generate_images_pred: which resolution the depth map of a scale has and *)
(* which back-projection module, projection module and intrinsics it is    *)
(* given.  A resolution is <<height, width>>.                              *)

\* lines 170-171: the resolution of scale s
Resolution(o, s) == <<o.height \div (2 ^ s), o.width \div (2 ^ s)>>

\* outputs["disp_<s>"]: the depth decoder's map of scale s
DispResolution(o, s) == Resolution(o, s)

\* lines 173, 176: the resolution backproject_depth[s] and project_3d[s] were built for
ModuleResolution(o, s) == Resolution(o, s)

\* inputs[("K", s)], inputs[("inv_K", s)]: the intrinsics of scale s
IntrinsicsResolution(o, s) == Resolution(o, s)

\* lines 382-391: the resolution of depth (disp is resized to full resolution
\* unless v1_multiscale)
DepthResolution(o, s) ==
    IF o.v1_multiscale THEN DispResolution(o, s) ELSE <<o.height, o.width>>

\* lines 383-393: source_scale when the frame loop runs (line 393 assigns 0
\* after the branch)
SourceScale(o, s) == 0

\* what generate_images_pred reads besides the tensors
ImageCalls ==
    [height : Sizes, width : Sizes, scales : ScaleLists, v1_multiscale : BOOLEAN,
     posecnn : BOOLEAN, n : 0..MaxNeighbours]

\* the state the generate_images_pred specification starts in: one call
InitImages ==
    /\ LoopIdle
    /\ LoadIdle
    /\ LossIdle
    /\ RansacIdle
    /\ ipc = "scales"
    /\ iopt \in ImageCalls
    /\ iscaleIdx = 0
    /\ depthRes = << >>
    /\ used = << >>

\* lines 413-416: what the frames of scale s are projected with
UsedForScale(o, s) ==
    [backproject_depth |-> ModuleResolution(o, SourceScale(o, s)),
     inv_K |-> IntrinsicsResolution(o, SourceScale(o, s)),
     project_3d |-> ModuleResolution(o, SourceScale(o, s)),
     K |-> IntrinsicsResolution(o, SourceScale(o, s))]

\* lines 380-423: one iteration of the loop over the scales.  With posecnn
\* line 404 reads the unbound name f_i; what the modules do with a depth map
\* of another resolution than theirs is decided outside this file: the pass
\* raises or goes on.
ScaleImages ==
    /\ ipc = "scales"
    /\ iscaleIdx < Len(iopt.scales)
    /\ LET s == iopt.scales[iscaleIdx + 1]
       IN  /\ depthRes' = DepthResolution(iopt, s)
           /\ IF iopt.n = 0
              THEN UNCHANGED <<ipc, used>>
              ELSE IF iopt.posecnn
              THEN ipc' = "raised" /\ UNCHANGED used
              ELSE /\ used' = UsedForScale(iopt, s)
                   /\ \/ UNCHANGED ipc
                      \/ /\ UsedForScale(iopt, s).backproject_depth # DepthResolution(iopt, s)
                         /\ ipc' = "raised"
    /\ iscaleIdx' = iscaleIdx + 1
    /\ UNCHANGED iopt
    /\ UNCHANGED <<loopVars, loadVars, lossVars, ransacVars>>

\* the loop over the scales is over
ReturnImages ==
    /\ ipc = "scales"
    /\ iscaleIdx = Len(iopt.scales)
    /\ ipc' = "returned"
    /\ UNCHANGED <<iopt, iscaleIdx, depthRes, used>>
    /\ UNCHANGED <<loopVars, loadVars, lossVars, ransacVars>>

NextImages ==
    \/ ScaleImages
    \/ ReturnImages

SpecImages == InitImages /\ [][NextImages]_vars

\* C13: for every scale and both values of v1_multiscale, the back-projection
\* module, the projection module and the K and inv_K intrinsics a scale's
\* frames are projected with are those of the resolution of the depth map
\* passed to them.
C13_ResolutionsConsistent ==
    ipc # "unused" /\ used # << >> =>
       /\ used.backproject_depth = depthRes
       /\ used.project_3d = depthRes
       /\ used.inv_K = depthRes
       /\ used.K = depthRes

----------------------------------------------------------------------------
(* Claims about the training loop, checked under Spec. *)

\* the order of the operations of one iteration of run_epoch's loop
BatchOrder == <<"process_batch", "zero_grad", "backward", "step", "log", "val">>

IsPrefix(a, b) == Len(a) <= Len(b) /\ SubSeq(b, 1, Len(a)) = a

\* no training batch is in progress
BetweenBatches == pc \in {"batch_loop", "save_check", "epoch_loop", "done", "aborted"}

\* C1: every training batch drawn from the loader has had exactly one
\* optimizer step when its iteration is over, the operations of a batch run in
\* the order process_batch, zero_grad, backward, step (then log, val), and the
\* parameters are changed by the optimizer steps alone (val() included).
C1_ParamsMutatedOncePerBatch ==
    /\ IsPrefix(batchOps, BatchOrder)
    /\ BetweenBatches => optSteps = fetched
    /\ \A m \in DOMAIN params : params[m] = IF m \in toTrain THEN optSteps ELSE 0

\* C2: every val() call obtains exactly one batch, the batches come in cyclic
\* order over the validation loader, and StopIteration never leaves val().
C2_ValCyclicNoStopIteration ==
    /\ fault # "StopIteration"
    /\ Len(valBatches) = valCalls
    /\ \A k \in 1..Len(valBatches) : valBatches[k] = (k - 1) % nVal

\* the epochs of 0..n-1 a checkpoint is due after
DueEpochs(n) == {e \in 0..(n - 1) : (e + 1) % opt.save_frequency = 0}

\* the epochs whose run_epoch and save check are over
EpochsClosed == IF pc \in {"epoch_loop", "done"} THEN epochIter ELSE epochIter - 1

\* train() has ended, by returning or by an exception
TrainEnded == pc = "done" \/ (pc = "aborted" /\ faultAt # "__init__")

\* C3: train() writes a checkpoint exactly after the epochs e of
\* 0..num_epochs-1 with (e+1) % save_frequency = 0, after that epoch's
\* run_epoch and before the next epoch; a checkpoint holds <name>.pth for every
\* model of self.models and adam.pth.
C3_CheckpointAfterEveryDueEpoch ==
    /\ pc \notin {"new", "constructed"} /\ ~(pc = "aborted" /\ faultAt = "__init__")
          => DOMAIN checkpoints \cap 0..(EpochsClosed - 1) = DueEpochs(EpochsClosed)
    /\ DOMAIN checkpoints \subseteq 0..(epochIter - 1)
    /\ TrainEnded => DOMAIN checkpoints = DueEpochs(opt.num_epochs)
    /\ \A e \in DOMAIN checkpoints :
          {<<m, "pth">> : m \in models} \cup {<<"adam", "pth">>} \subseteq checkpoints[e]

\* the configuration errors the constructor asserts on
AssertedConfigError(o) ==
    \/ o.height % 32 # 0
    \/ o.width % 32 # 0
    \/ o.frame_ids[1] # "0"
    \/ o.predictive_mask /\ ~o.disable_automasking

\* a lookup of a model or an output key the configuration did not produce
ConfigFaultAfterInit == pc = "aborted" /\ faultAt # "__init__" /\ fault = "KeyError"

\* C5: the asserted configuration errors and a pose-mode misconfiguration
\* abort inside __init__, and once the constructor has completed no
\* configuration-caused fault (a missing model or output key) occurs in train().
C5_ConfigErrorsFatalAtStartup ==
    /\ pc # "new" /\ AssertedConfigError(opt) => pc = "aborted" /\ faultAt = "__init__"
    /\ ~ConfigFaultAfterInit

\* the number of times the event e occurs in the forward pass
Count(e) == Cardinality({i \in 1..Len(events) : events[i] = e})

\* the number of calls of a model in the forward pass
Calls(model) == Cardinality({i \in 1..Len(events) :
                                events[i][1] = "call" /\ events[i][2] = model})

\* process_batch has run for the current training batch
BatchProcessed == pc # "unused" /\ Len(batchOps) >= 1

\* the neighbour frames other than the stereo frame "s"
TemporalNeighbours ==
    {Neighbours(opt)[i] : i \in 1..Len(Neighbours(opt))} \ {"s"}

\* C11: in one process_batch the pose network is called exactly once for
\* every neighbour frame, the optical-flow encoder and decoder exactly twice,
\* once on (neighbour, reference) and once on (reference, neighbour), and the
\* depth decoder exactly once, on the reference frame's features.
C11_NetworkCallsPerNeighbour ==
    BatchProcessed =>
       /\ \A f \in TemporalNeighbours :
             /\ Count(Call("pose", f, "neighbour,reference")) = 1
             /\ \A m \in {"position_encoder", "position"} :
                   /\ Count(Call(m, f, "neighbour,reference")) = 1
                   /\ Count(Call(m, f, "reference,neighbour")) = 1
       /\ Calls("pose") = Cardinality(TemporalNeighbours)
       /\ Calls("position_encoder") = 2 * Cardinality(TemporalNeighbours)
       /\ Calls("position") = 2 * Cardinality(TemporalNeighbours)
       /\ Calls("depth") = 1
       /\ Count(Call("depth", "0", "reference")) = 1

\* line 330: the local names the result of pose_by_ransac is bound to
RansacResults == {"P_mat", "E_mat"}

\* lines 382-405: the kinds of keys generate_images_pred reads from outputs
GenerateImagesReadKinds == {"disp", "cam_T_cam", "axisangle", "translation"}

\* lines 469-482: the kinds of keys compute_losses reads from outputs
ComputeLossesReadKinds == {"disp", "omaskb", "color", "r", "th"}

\* the kinds of keys predict_poses wrote in the forward pass
WrittenKinds == {events[i][2] : i \in {j \in 1..Len(events) : events[j][1] = "write"}}

WrittenByPredict ==
    {<<events[i][2], events[i][3]>> : i \in {j \in 1..Len(events) : events[j][1] = "write"}}

\* lines 399, 474-482, 608-618: the keys of the neighbour frames that
\* generate_images_pred, compute_losses and log read
KeysRead(o) ==
    {<<"cam_T_cam", f>> : f \in TemporalNeighbours}
        \cup {<<k, Neighbours(o)[i]>> :
                 k \in {"omaskb", "color", "r", "th", "ref"}, i \in 1..Len(Neighbours(o))}

\* C16: every outputs key read during a batch was written earlier in the
\* batch: when predict_poses has returned, the keys generate_images_pred,
\* compute_losses and log read for the frames of frame_ids[1:] are among those
\* predict_poses and generate_images_pred wrote, and no read raises KeyError.
C16_KeysReadWereWritten ==
    /\ BatchProcessed /\ ~Raised(events)
          => KeysRead(opt) \subseteq WrittenByPredict \cup GenerateImagesKeys(opt)
    /\ ~(pc = "aborted" /\ fault = "KeyError" /\ faultAt \in {"process_batch", "log", "val"})

\* the position of the first event e of the forward pass, 0 if there is none
FirstAt(e) ==
    IF \E i \in 1..Len(events) : events[i] = e
    THEN CHOOSE i \in 1..Len(events) : events[i] = e /\ \A j \in 1..(i - 1) : events[j] # e
    ELSE 0

\* C17: for every non-stereo neighbour frame, predict_poses reaches the
\* pose_by_ransac call with every argument bound and the call returns before
\* a per-scale key of that frame is written; the step raises no NameError or
\* TypeError.
C17_RansacCallCompletes ==
    /\ BatchProcessed /\ use_pose_net /\ num_pose_frames = 2 =>
          \A f \in TemporalNeighbours :
             /\ RansacCallReads \subseteq PredictPosesBound
             /\ FirstAt(<<"ransac", f>>) >= 1
             /\ \A i \in 1..Len(events) :
                   events[i][1] = "write" /\ events[i][3] = f => FirstAt(<<"ransac", f>>) < i
    /\ ~(pc = "aborted" /\ faultAt = "process_batch" /\ fault \in {"NameError", "TypeError"})

\* run_epoch has returned for every epoch train() has started
EpochsOver == pc \in {"save_check", "epoch_loop", "done"}

\* C14: self.step grows by one per training batch and is not reset between
\* epochs, and the scheduler is stepped once per epoch after the epoch's last
\* batch: after e epochs of n batches step = e * n and the scheduler has been
\* stepped e times.
C14_StepPerBatchSchedulerPerEpoch ==
    /\ pc # "unused" /\ BetweenBatches => step = fetched
    /\ EpochsOver => step = epochIter * nTrain /\ schedSteps = epochIter

\* a training forward or backward pass or optimizer step is in progress
InTrainingPass == pc \in {"process_batch", "zero_grad", "backward", "optimizer_step"}

\* C15: val() runs exactly for the training batches with
\* batch_idx % log_frequency = 0, after the batch's optimizer step; it returns
\* with the models back in train mode, so that every training pass runs with
\* the models in train mode.
C15_ValOnLoggedBatchesRestoresTrainMode ==
    /\ InTrainingPass => \A m \in DOMAIN mode : mode[m] = "train"
    /\ IsPrefix(batchOps, BatchOrder)
    /\ pc = "batch_loop" /\ Len(batchOps) >= 1
          => ((\E i \in 1..Len(batchOps) : batchOps[i] = "val")
                 <=> (batch_idx - 1) % opt.log_frequency = 0)
    /\ valCalls >= 1
          => /\ ~(pc = "aborted" /\ faultAt = "val")
             /\ \A m \in DOMAIN mode : mode[m] = "train"

\* the optical-flow networks
PositionModels == {"position_encoder", "position"}

C18_TransformTermIsZero ==
    lossPc # "unused" /\ lossOpt.which = "train" /\ scaleIdx >= 1 =>
       /\ \A f \in 1..lossOpt.n : TransformTerm(scaleIn.reg[f], lossOpt.mask)[1] = 0
       /\ \A tc \in TransformConstraints :
             REq(losses[LastScale],
                 ScaleLoss([lossOpt EXCEPT !.transform_constraint = tc], LastScale, scaleIn))

\* C18 witness: compute_losses has returned with a non-zero
\* transform_constraint, two neighbour frames and non-zero registration values.
C18_Witness ==
    /\ lossPc = "returned"
    /\ lossOpt.which = "train"
    /\ lossOpt.transform_constraint = 1
    /\ lossOpt.n >= 2
    /\ lossOpt.mask >= 1
    /\ scaleIn.reg[1] # 0
    /\ lossFinal[1] # 0
====
